---- MODULE Spec2Model ----
(***************************************************************************)
(* Model of four fragments  of the telehealth front-end:                   *)
(*   - the outbreak report aggregator of OutbreakBox (groupLocal and the   *)
(*     sorted localEntries projection), src/src/components/SEO.tsx;        *)
(*   - the global-outbreak fetch / retry / polling machinery of the same   *)
(*     component;                                                          *)
(*   - the prescription payment gate of src/src/pages/PrescriptionBox.tsx; *)
(*   - the donation transactions of src/src/components/CollaborativeHub.tsx*)
(*     (SpecHub).                                                          *)
(* Each fragment has its own specification (SpecAgg, SpecPoll, and for the *)
(* payment gate SpecBox and SpecPay, the latter with the history of the    *)
(* writes to payment_status); the variables of the other fragments keep    *)
(* their initial values.                                                   *)
(***************************************************************************)
EXTENDS Integers, Sequences, FiniteSets, Bags, TLC

VARIABLES
    \* OutbreakBox: the reports prop and the two memos derived from it
    reports, aggregatedLocal, localEntries,
    \* OutbreakBox: whether VITE_API_KEY and VITE_API_URL are both set
    configured,
    \* SpecParse: the candidate text the endpoint answers every request with
    responseText,
    \* OutbreakBox: new, mounted or unmounted
    lifecycle,
    \* OutbreakBox state
    retryCount, isLoading, error, globalReports,
    \* the requests in flight, the retry timers pending and the intervals
    \* live, each with the retryCount captured by its fetchGlobalOutbreaks
    inFlight, timers, intervals,
    \* history kept by SpecPoll: the requests issued since the latest of the
    \* mount, a poll tick and a successful fetch
    fetchesInRun,
    \* history kept by SpecPoll: the request issued by the latest step, if it
    \* issued one
    lastFetch,
    \* the shared store: prescriptions/{patient}/payment_status and .../messages
    payStore, msgStore, nextId,
    \* PrescriptionBox state of every mounted instance (patient and doctors)
    paymentClaimed, paymentVerified, showVerificationPopup,
    \* PrescriptionBox state of the patient's instance
    messages, hasDoctorSentFirst,
    \* the handleSendPrescription calls that are past their first await
    sendPc,
    \* history kept by SpecPay: the write to payment_status made by the
    \* latest step, if it made one
    lastWrite,
    \* history kept by SpecPay: a claim has been denied, and that denial and
    \* every write to payment_status since were issued with all views up to date
    denied,
    \* the shared store of CollaborativeHub: transactions/{id}, the pushes made
    \* under it so far, collaborativeHub/donors and the post's donations flag
    txStore, nextTx, donorStore, donations,
    \* CollaborativeHub state of every doctor's instance: the pending list
    transactions,
    \* the handleApproveTransaction and handleRejectTransaction calls of every
    \* doctor that are past their first await
    hubCalls,
    \* history kept by SpecRetry: the delays of the first maxRetries retry
    \* timers set since the mount or the latest successful fetch, in order
    delaysInRun

aggVars == <<reports, aggregatedLocal, localEntries>>
boxVars == <<payStore, msgStore, nextId, paymentClaimed, paymentVerified,
             showVerificationPopup, messages, hasDoctorSentFirst, sendPc>>
histVars == <<lastWrite, denied>>
payVars == <<boxVars, histVars>>
pollVars == <<configured, responseText, lifecycle, retryCount, isLoading, error, globalReports,
              inFlight, timers, intervals, fetchesInRun, lastFetch>>
hubVars == <<txStore, nextTx, donorStore, donations, transactions, hubCalls>>
\* everything outside PrescriptionBox
retryVars == <<delaysInRun>>
outVars == <<aggVars, pollVars, hubVars, retryVars>>
vars == <<outVars, payVars>>

(***************************************************************************)
(* Strings.  A string is a sequence of one-character strings; Null stands  *)
(* for a null or absent field (both are falsy and both take the default).  *)
(***************************************************************************)
MaxStrLen == 1
MaxReports == 2

Alphabet == {"A", " "}
Null == <<"<null>">>
Unknown == <<"U", "n", "k", "n", "o", "w", "n">>

RECURSIVE StringsUpTo(_)
StringsUpTo(n) ==
    IF n = 0 THEN {<<>>}
    ELSE LET shorter == StringsUpTo(n - 1)
         IN  shorter \cup {Append(s, c) : s \in shorter, c \in Alphabet}

\* location?: string | null
LocationInputs == StringsUpTo(MaxStrLen) \cup {Null}
\* type?: string
TypeInputs == {Null, <<>>, <<"a">>, <<" ">>, <<" ", "A">>}
ReportInputs == [location : LocationInputs, type : TypeInputs]

IsWhitespace(c) == c = " "

\* String.prototype.trim
RECURSIVE trimStart(_)
trimStart(s) ==
    IF s # <<>> /\ IsWhitespace(Head(s)) THEN trimStart(Tail(s)) ELSE s

RECURSIVE trimEnd(_)
trimEnd(s) ==
    IF s # <<>> /\ IsWhitespace(s[Len(s)])
    THEN trimEnd(SubSeq(s, 1, Len(s) - 1))
    ELSE s

trim(s) == trimEnd(trimStart(s))

\* String.prototype.toLowerCase
lowerChar(c) ==
    CASE c = "A" -> "a"
      [] c = "U" -> "u"
      [] OTHER   -> c

toLowerCase(s) == [i \in 1..Len(s) |-> lowerChar(s[i])]

\* JavaScript truthiness of an optional string: null, undefined and "" are falsy
\* the nullish test of ??: only null and undefined take the default
TruthyUnlessNull(s) == s # Null

Truthy(s) == s # Null /\ s # <<>>

\* a slip that forgets the trim
keyOfNoTrim(x) == toLowerCase(IF Truthy(x) THEN x ELSE Unknown)

\* (x || "Unknown").toString().trim().toLowerCase()
keyOf(x) == toLowerCase(trim(IF Truthy(x) THEN x ELSE Unknown))

(***************************************************************************)
(* Aggregated = Record<string, Record<string, number>>.  A JavaScript      *)
(* object keeps its string keys in insertion order, and Object.entries     *)
(* reads them in that order, so a table is a sequence of <<key, value>>    *)
(* entries without repeated keys.                                          *)
(***************************************************************************)
HasKey(obj, k) == \E i \in 1..Len(obj) : obj[i][1] = k
IndexOf(obj, k) == CHOOSE i \in 1..Len(obj) : obj[i][1] = k
Get(obj, k, dflt) == IF HasKey(obj, k) THEN obj[IndexOf(obj, k)][2] ELSE dflt
Put(obj, k, v) ==
    IF HasKey(obj, k)
    THEN [obj EXCEPT ![IndexOf(obj, k)] = <<k, v>>]
    ELSE Append(obj, <<k, v>>)

\* a slip that starts a fresh table whenever a city is seen for the first time
groupStepFreshTable(agg, r) ==
    LET city    == keyOf(r.location)
        disease == keyOf(r.type)
        agg1    == IF ~HasKey(agg, city) THEN << <<city, <<>>>> >> ELSE agg
        dis     == Get(agg1, city, <<>>)
    IN  Put(agg1, city, Put(dis, disease, Get(dis, disease, 0) + 1))

\* a slip that stores 1 instead of incrementing
groupStepNoIncrement(agg, r) ==
    LET city    == keyOf(r.location)
        disease == keyOf(r.type)
        agg1    == IF ~HasKey(agg, city) THEN Put(agg, city, <<>>) ELSE agg
        dis     == Get(agg1, city, <<>>)
    IN  Put(agg1, city, Put(dis, disease, 1))

\* a slip that stores the count read, before the increment
groupStepCountRead(agg, r) ==
    LET city    == keyOf(r.location)
        disease == keyOf(r.type)
        agg1    == IF ~HasKey(agg, city) THEN Put(agg, city, <<>>) ELSE agg
        dis     == Get(agg1, city, <<>>)
    IN  Put(agg1, city, Put(dis, disease, Get(dis, disease, 0)))

\* the body of the for loop of groupLocal
groupStep(agg, r) ==
    LET city    == keyOf(r.location)
        disease == keyOf(r.type)
        agg1    == IF ~HasKey(agg, city) THEN Put(agg, city, <<>>) ELSE agg
        dis     == Get(agg1, city, <<>>)
    IN  Put(agg1, city, Put(dis, disease, Get(dis, disease, 0) + 1))

RECURSIVE groupFrom(_, _)
groupFrom(agg, rs) ==
    IF rs = <<>> THEN agg ELSE groupFrom(groupStep(agg, Head(rs)), Tail(rs))

\* a table that starts with an entry for the default city
groupLocalFromDefault(rs) == groupFrom(<< <<toLowerCase(Unknown), <<>>>> >>, rs)

groupLocal(rs) == groupFrom(<<>>, rs)

\* Array.prototype.sort((a, b) => b.key - a.key): stable and descending.
\* keys[i] is the sort key of element i; the result is the order of the indices.
RECURSIVE insertDesc(_, _, _)
insertDesc(order, j, keys) ==
    IF order = <<>> THEN <<j>>
    ELSE IF keys[Head(order)] >= keys[j]
         THEN <<Head(order)>> \o insertDesc(Tail(order), j, keys)
         ELSE <<j>> \o order

RECURSIVE sortOrder(_, _, _)
sortOrder(order, j, keys) ==
    IF j > Len(keys) THEN order
    ELSE sortOrder(insertDesc(order, j, keys), j + 1, keys)

\* a sort that leaves the list in the order it was given
sortDescKeepsOrder(list, keys) == list

sortDesc(list, keys) ==
    LET order == sortOrder(<<>>, 1, keys)
    IN  [i \in 1..Len(list) |-> list[order[i]]]

\* Object.values(dis).reduce((s, n) => s + n, 0)
RECURSIVE sumCounts(_)
sumCounts(dis) == IF dis = <<>> THEN 0 ELSE Head(dis)[2] + sumCounts(Tail(dis))

\* the useMemo that derives localEntries from aggregatedLocal
entriesOf(agg) ==
    LET list == [i \in 1..Len(agg) |->
                    [city     |-> agg[i][1],
                     diseases |-> sortDesc(agg[i][2],
                                           [j \in 1..Len(agg[i][2]) |-> agg[i][2][j][2]]),
                     total    |-> sumCounts(agg[i][2])]]
    IN  sortDesc(list, [i \in 1..Len(list) |-> list[i].total])

(***************************************************************************)
(* The reports prop of OutbreakBox: the dashboard's snapshot of the        *)
(* reports collection, newest first; both memos are recomputed whenever    *)
(* the prop changes.                                                       *)
(***************************************************************************)
Render(rs) ==
    LET agg == groupLocal(rs)
    IN  /\ reports' = rs
        /\ aggregatedLocal' = agg
        /\ localEntries' = entriesOf(agg)

InitAggVars ==
    /\ reports = <<>>
    /\ aggregatedLocal = groupLocal(<<>>)
    /\ localEntries = entriesOf(groupLocal(<<>>))

ReportAdded ==
    /\ Len(reports) < MaxReports
    /\ \E r \in ReportInputs : Render(<<r>> \o reports)

ReportRemoved ==
    \E i \in 1..Len(reports) :
        Render(SubSeq(reports, 1, i - 1) \o SubSeq(reports, i + 1, Len(reports)))

(***************************************************************************)
(* The prescription payment gate, src/src/pages/PrescriptionBox.tsx.       *)
(* One patient's thread; the patient and NumDoctors doctors each have a    *)
(* mounted PrescriptionBox on it.  A write (set / remove) is applied to    *)
(* the store when it is issued, and the writer's own onValue subscription  *)
(* on the written path gets its value event in the same step; every other  *)
(* subscriber is handed the current value of its path at some later time,  *)
(* so a local view can lag behind the store.                               *)
(***************************************************************************)
NumDoctors == 2
MaxMsgs == 2

Patient == 0
Doctors == 1..NumDoctors
Parties == {Patient} \cup Doctors
roleOf(p) == IF p = Patient THEN "patient" ELSE "doctor"

\* the value at payment_status: absent, or { claimed, verified }
NoRecord == [exists |-> FALSE, claimed |-> FALSE, verified |-> FALSE]
PayRecord(c, v) == [exists |-> TRUE, claimed |-> c, verified |-> v]

\* the object each handler writes
sendPrescriptionValue == PayRecord(FALSE, FALSE)
confirmPaymentValue == PayRecord(TRUE, FALSE)
\* a slip in the object literal of handleVerifyYes
verifyYesValueUnclaimed == PayRecord(FALSE, TRUE)
verifyYesValue == PayRecord(TRUE, TRUE)
\* a denial that clears only the verified flag
verifyNoValueKeepsClaim == PayRecord(TRUE, FALSE)
verifyNoValue == PayRecord(FALSE, FALSE)

\* snap.val() || { claimed: false, verified: false }
snapVal(rec) == IF rec.exists THEN <<rec.claimed, rec.verified>> ELSE <<FALSE, FALSE>>

\* slips in the condition of the popup effect
popupEffectIgnoresVerified(role, claimed, verified) == role = "doctor" /\ claimed
popupEffectIgnoresClaimed(role, claimed, verified) == role = "doctor" /\ ~verified

\* the popup effect: role === "doctor" && paymentClaimed && !paymentVerified
popupEffect(role, claimed, verified) == role = "doctor" /\ claimed /\ ~verified

\* a slip that leaves the role out of the test
shouldBlurAnyRole(role, hasDoc, verified) == hasDoc /\ ~verified

\* const shouldBlur = role === "patient" && hasDoctorSentFirst && !paymentVerified
shouldBlur(role, hasDoc, verified) == role = "patient" /\ hasDoc /\ ~verified

\* a slip that obscures the prescriptions only
obscuredPrescriptionsOnly(role, hasDoc, verified, msg) ==
    shouldBlur(role, hasDoc, verified) /\ msg.type = "prescription"

\* className "blur-sm select-none" of a rendered message
obscured(role, hasDoc, verified, msg) ==
    shouldBlur(role, hasDoc, verified) /\ msg.type \in {"prescription", "buyLink"}

\* patient input area: the payment panel replaces the chat input
paymentPanelShown(hasDoc, verified) == hasDoc /\ ~verified
\* a slip that shows the button in the whole panel
confirmButtonAlwaysInPanel(hasDoc, claimed, verified) ==
    paymentPanelShown(hasDoc, verified)

\* ... and inside it the Confirm Payment button
confirmButtonShown(hasDoc, claimed, verified) ==
    paymentPanelShown(hasDoc, verified) /\ ~claimed

\* msgs.sort((a, b) => a.timestamp - b.timestamp)
RECURSIVE sortByTimestamp(_)
sortByTimestamp(set) ==
    IF set = {} THEN <<>>
    ELSE LET first == CHOOSE m \in set : \A n \in set : m.timestamp <= n.timestamp
         IN  <<first>> \o sortByTimestamp(set \ {first})

\* A new message of the thread.  nextId stands for Date.now(): later
\* messages have later timestamps (and ids).
Message(sender, type) == [timestamp |-> nextId, sender |-> sender, type |-> type]

StatusName(pair) ==
    CASE pair = <<FALSE, FALSE>> -> "Unclaimed"
      [] pair = <<TRUE, FALSE>>  -> "Claimed"
      [] pair = <<TRUE, TRUE>>   -> "Verified"
      [] OTHER                   -> "Invalid"

ViewOf(p) == <<paymentClaimed[p], paymentVerified[p]>>
Synced == \A p \in Parties : ViewOf(p) = snapVal(payStore)

\* history record of a step: the handler that wrote (or "none"), the stored
\* status and the writer's local view before the write, and whether every
\* view was up to date then
NoWrite == [op |-> "none", prev |-> "Unclaimed", view |-> "Unclaimed", synced |-> FALSE]
Written(op, p) ==
    [op |-> op, prev |-> StatusName(snapVal(payStore)),
     view |-> StatusName(ViewOf(p)), synced |-> Synced]

InitPayVars ==
    /\ payStore = NoRecord
    /\ msgStore = {}
    /\ nextId = 1
    /\ paymentClaimed = [p \in Parties |-> FALSE]
    /\ paymentVerified = [p \in Parties |-> FALSE]
    /\ showVerificationPopup = [p \in Parties |-> FALSE]
    /\ messages = <<>>
    /\ hasDoctorSentFirst = FALSE
    /\ sendPc = [payment |-> [d \in Doctors |-> 0], links |-> 0]
    /\ lastWrite = NoWrite
    /\ denied = FALSE

storeVars == <<payStore, msgStore, nextId>>
viewVars == <<paymentClaimed, paymentVerified, showVerificationPopup>>
threadVars == <<messages, hasDoctorSentFirst>>

\* a callback that recomputed the flag from every snapshot
MessagesSnapshotRecomputes ==
    /\ messages # sortByTimestamp(msgStore)
    /\ messages' = sortByTimestamp(msgStore)
    /\ hasDoctorSentFirst' = (msgStore # {})
    /\ UNCHANGED <<storeVars, viewVars, sendPc>>

\* onValue callback of the patient's messages subscription
MessagesSnapshot ==
    /\ messages # sortByTimestamp(msgStore)
    /\ messages' = sortByTimestamp(msgStore)
    /\ hasDoctorSentFirst' = (hasDoctorSentFirst \/ msgStore # {})
    /\ UNCHANGED <<storeVars, viewVars, sendPc>>

\* a callback that took the claimed field only
PaymentSnapshotClaimedOnly(p) ==
    LET data == snapVal(payStore)
    IN  /\ ViewOf(p) # data
        /\ paymentClaimed' = [paymentClaimed EXCEPT ![p] = data[1]]
        /\ showVerificationPopup' =
              [showVerificationPopup EXCEPT
                  ![p] = popupEffect(roleOf(p), data[1], paymentVerified[p])]
        /\ UNCHANGED <<paymentVerified, storeVars, threadVars, sendPc>>

\* onValue callback of the payment_status subscription of p, and the popup
\* effect, which runs when paymentClaimed or paymentVerified changed
PaymentSnapshot(p) ==
    LET data == snapVal(payStore)
    IN  /\ ViewOf(p) # data
        /\ paymentClaimed' = [paymentClaimed EXCEPT ![p] = data[1]]
        /\ paymentVerified' = [paymentVerified EXCEPT ![p] = data[2]]
        /\ showVerificationPopup' =
              [showVerificationPopup EXCEPT ![p] = popupEffect(roleOf(p), data[1], data[2])]
        /\ UNCHANGED <<storeVars, threadVars, sendPc>>

\* the value event that a write to payment_status raises at once on the
\* writer's own subscription, with the popup effect of the render it causes
LocalEcho(p) ==
    LET data == snapVal(payStore')
    IN  /\ paymentClaimed' = [paymentClaimed EXCEPT ![p] = data[1]]
        /\ paymentVerified' = [paymentVerified EXCEPT ![p] = data[2]]
        /\ showVerificationPopup' =
              [showVerificationPopup EXCEPT ![p] = popupEffect(roleOf(p), data[1], data[2])]

\* handleSendChat: the doctor's input is always shown, the patient's only
\* when the payment panel is not.  The patient's own write raises the value
\* event of the messages subscription at once, on the list the patient holds.
SendChat(p) ==
    /\ nextId <= MaxMsgs
    /\ p = Patient => ~paymentPanelShown(hasDoctorSentFirst, paymentVerified[p])
    /\ msgStore' = msgStore \cup {Message(roleOf(p), "chat")}
    /\ nextId' = nextId + 1
    /\ IF p = Patient
       THEN /\ messages' = sortByTimestamp({messages[i] : i \in 1..Len(messages)}
                                               \cup {Message(roleOf(p), "chat")})
            /\ hasDoctorSentFirst' = TRUE
       ELSE UNCHANGED threadVars
    /\ UNCHANGED <<payStore, viewVars, sendPc>>

\* handleSendPrescription up to its first await: the prescription message
\* is written.  sendPc counts the calls waiting at each later await, those
\* at the write to payment_status by doctor.
SendPrescription(d) ==
    /\ nextId <= MaxMsgs
    /\ msgStore' = msgStore \cup {Message("doctor", "prescription")}
    /\ nextId' = nextId + 1
    /\ sendPc' = [sendPc EXCEPT !.payment[d] = @ + 1]
    /\ UNCHANGED <<payStore, viewVars, threadVars>>

\* a send that writes payment_status only when there is no record yet
SendPrescriptionPaymentIfAbsent(d) ==
    /\ sendPc.payment[d] > 0
    /\ payStore' = IF payStore.exists THEN payStore ELSE sendPrescriptionValue
    /\ LocalEcho(d)
    /\ sendPc' = [sendPc EXCEPT !.payment[d] = @ - 1, !.links = @ + 1]
    /\ UNCHANGED <<msgStore, nextId, threadVars>>

\* ... then payment_status is set to { claimed: false, verified: false }
SendPrescriptionPayment(d) ==
    /\ sendPc.payment[d] > 0
    /\ payStore' = sendPrescriptionValue
    /\ LocalEcho(d)
    /\ sendPc' = [sendPc EXCEPT !.payment[d] = @ - 1, !.links = @ + 1]
    /\ UNCHANGED <<msgStore, nextId, threadVars>>

\* ... then fetchBuyLinks: on success the buy-link message is written to the
\* thread; on a missing key or a failed fetch the error message goes to the
\* doctor's local list only
SendPrescriptionLinks ==
    /\ sendPc.links > 0
    /\ sendPc' = [sendPc EXCEPT !.links = @ - 1]
    /\ \/ /\ nextId <= MaxMsgs
          /\ msgStore' = msgStore \cup {Message("gemini", "buyLink")}
          /\ nextId' = nextId + 1
       \/ UNCHANGED <<msgStore, nextId>>
    /\ UNCHANGED <<payStore, viewVars, threadVars>>

\* handleDeletePrescription: the button is rendered by a doctor on the
\* prescription messages of the thread
DeletePrescription(d, m) ==
    /\ m \in msgStore
    /\ m.type = "prescription"
    /\ msgStore' = msgStore \ {m}
    /\ UNCHANGED <<payStore, nextId, viewVars, threadVars, sendPc>>

\* a clear that removed the whole thread, payment_status included
ClearChatWithStatus(p) ==
    /\ p = Patient => ~paymentPanelShown(hasDoctorSentFirst, paymentVerified[p])
    /\ msgStore # {} \/ (p = Patient /\ messages # <<>>)
    /\ msgStore' = {}
    /\ payStore' = NoRecord
    /\ messages' = IF p = Patient THEN <<>> ELSE messages
    /\ UNCHANGED <<nextId, viewVars, hasDoctorSentFirst, sendPc>>

\* handleClearChat: remove(messages) and setMessages([]); the patient's
\* button is shown with the chat input
ClearChat(p) ==
    /\ p = Patient => ~paymentPanelShown(hasDoctorSentFirst, paymentVerified[p])
    /\ msgStore # {} \/ (p = Patient /\ messages # <<>>)
    /\ msgStore' = {}
    /\ messages' = IF p = Patient THEN <<>> ELSE messages
    /\ UNCHANGED <<payStore, nextId, viewVars, hasDoctorSentFirst, sendPc>>

\* handleConfirmPayment, from the Confirm Payment button
ConfirmPayment ==
    /\ confirmButtonShown(hasDoctorSentFirst, paymentClaimed[Patient],
                          paymentVerified[Patient])
    /\ payStore' = confirmPaymentValue
    /\ LocalEcho(Patient)
    /\ UNCHANGED <<msgStore, nextId, threadVars, sendPc>>

\* the views of p after p's own write and its value event
EchoedViews(p) ==
    LET data == snapVal(payStore')
    IN  /\ paymentClaimed' = [paymentClaimed EXCEPT ![p] = data[1]]
        /\ paymentVerified' = [paymentVerified EXCEPT ![p] = data[2]]

\* handleVerifyYes, from the popup: the write, its value event, and
\* setShowVerificationPopup(false)
VerifyYes(d) ==
    /\ showVerificationPopup[d]
    /\ payStore' = verifyYesValue
    /\ EchoedViews(d)
    /\ showVerificationPopup' = [showVerificationPopup EXCEPT ![d] = FALSE]
    /\ UNCHANGED <<msgStore, nextId, threadVars, sendPc>>

\* handleVerifyNo, from the popup
VerifyNo(d) ==
    /\ showVerificationPopup[d]
    /\ payStore' = verifyNoValue
    /\ EchoedViews(d)
    /\ showVerificationPopup' = [showVerificationPopup EXCEPT ![d] = FALSE]
    /\ UNCHANGED <<msgStore, nextId, threadVars, sendPc>>

(***************************************************************************)
(* OutbreakBox: fetchGlobalOutbreaks, its retries and the polling effect.  *)
(* fetchGlobalOutbreaks is re-created whenever retryCount changes, and a   *)
(* call of it reads the retryCount of the render that created it: a call,  *)
(* a fetch in flight, a retry timer and an interval are each identified by *)
(* that captured value.  A state update, the render it causes and the      *)
(* effect that render re-runs are one step.                                *)
(***************************************************************************)
maxRetries == 3

MaxRetryCount == 4
MaxOutstanding == 4
MaxFetches == 5

(***************************************************************************)
(* The response of the endpoint.  The candidate text is a sequence of      *)
(* tokens: "{" and "}", "k" for a member name with its colon, "1" for a    *)
(* number, "a" for an array literal and "x" for anything that is not       *)
(* JSON.  JSON.parse accepts                                               *)
(*     value ::= "1" | "a" | "{" "}" | "{" "k" value "}"                   *)
(* and its result is <<"number">>, <<"array">>, <<"object">> or            *)
(* <<"object", v>> with v the parsed member.                               *)
(***************************************************************************)
MaxTextLen == 4

Tokens == {"{", "}", "k", "1", "a", "x"}

RECURSIVE TextsOfLen(_)
TextsOfLen(n) ==
    IF n = 0 THEN {<<>>}
    ELSE {<<c>> \o t : c \in Tokens, t \in TextsOfLen(n - 1)}

Texts == UNION {TextsOfLen(n) : n \in 0..MaxTextLen}

SyntaxError == <<"SyntaxError">>
NoMatch == <<"null">>
EmptyObject == <<"object">>

\* JSON.parse(text): the parsed value, or SyntaxError for the exception
RECURSIVE JSONparse(_)
JSONparse(t) ==
    IF t = <<"1">> THEN <<"number">>
    ELSE IF t = <<"a">> THEN <<"array">>
    ELSE IF t = <<"{", "}">> THEN EmptyObject
    ELSE IF Len(t) >= 4 /\ t[1] = "{" /\ t[2] = "k" /\ t[Len(t)] = "}"
         THEN LET v == JSONparse(SubSeq(t, 3, Len(t) - 1))
              IN  IF v = SyntaxError THEN SyntaxError ELSE <<"object", v>>
         ELSE SyntaxError

\* typeof parsedData !== "object" || parsedData === null, negated
typeofObject(v) == v[1] \in {"object", "array"}

\* textResponse.match(/\{[\s\S]*\}/): from the first "{" that has a "}" after
\* it to the last "}" of the text (the star is greedy), or null
matchBraces(t) ==
    LET opens  == {i \in 1..Len(t) : t[i] = "{"}
        first  == CHOOSE i \in opens : \A j \in opens : i <= j
        closes == {i \in 1..Len(t) : t[i] = "}" /\ (opens # {} => i > first)}
    IN  IF opens = {} \/ closes = {} THEN NoMatch
        ELSE SubSeq(t, first, CHOOSE i \in closes : \A j \in closes : i >= j)

Thrown == [ok |-> FALSE, value |-> SyntaxError]
Parsed(v) == [ok |-> TRUE, value |-> v]

\* the statements between the reading of textResponse and the outer catch:
\* what is handed to setGlobalReports, or that an Error reaches the catch
parseText(t) ==
    IF t = <<>> THEN Thrown
    ELSE LET parsedData == JSONparse(t)
         IN  IF parsedData # SyntaxError /\ typeofObject(parsedData)
             THEN Parsed(parsedData)
             ELSE LET match == matchBraces(t)
                  IN  IF match = NoMatch THEN Thrown
                      ELSE LET parsed == JSONparse(match)
                           IN  IF parsed = SyntaxError THEN Thrown
                               ELSE Parsed(parsed)

\* what the request can come back with: a rejected fetch, a response that is
\* not ok, or an ok response with its candidate text (empty when the body
\* has none)
Rejected == [status |-> "rejected", text |-> <<>>]
NotOk == [status |-> "notOk", text |-> <<>>]
Ok(t) == [status |-> "ok", text |-> t]

\* the responses the polling machinery is run against: the two failures of
\* the request, and an ok response without text, with an object, with a
\* number, with an object after other text, with braces around other text,
\* and with other text only
Responses ==
    {Rejected, NotOk, Ok(<<>>), Ok(<<"{", "k", "1", "}">>), Ok(<<"1">>),
     Ok(<<"x", "{", "}">>), Ok(<<"{", "x", "}">>), Ok(<<"x">>)}

\* the try block as a whole
outcome(resp) == IF resp.status = "ok" THEN parseText(resp.text) ELSE Thrown
parses(resp) == outcome(resp).ok

NoFetch == [trigger |-> "none", mounted |-> FALSE]

PollState ==
    [lifecycle |-> lifecycle, retryCount |-> retryCount, isLoading |-> isLoading,
     error |-> error, globalReports |-> globalReports, inFlight |-> inFlight,
     timers |-> timers, intervals |-> intervals, fetchesInRun |-> fetchesInRun,
     lastFetch |-> lastFetch]

\* a state setter: the update is dropped once the component is unmounted
setState(s, field, v) ==
    IF s.lifecycle = "mounted" THEN [s EXCEPT ![field] = v] ELSE s

\* a call that goes to the network without looking at the configuration
fetchGlobalOutbreaksUnchecked(s, k, trigger) ==
    [setState(setState(s, "isLoading", TRUE), "error", "none") EXCEPT
        !.inFlight = @ (+) SetToBag({k}),
        !.fetchesInRun = @ + 1,
        !.lastFetch = [trigger |-> trigger, mounted |-> s.lifecycle = "mounted"]]

\* a call of the fetchGlobalOutbreaks that captured retryCount = k, up to
\* its first await
fetchGlobalOutbreaks(s, k, trigger) ==
    IF ~configured
    THEN setState(s, "error", "config")
    ELSE [setState(setState(s, "isLoading", TRUE), "error", "none") EXCEPT
             !.inFlight = @ (+) SetToBag({k}),
             !.fetchesInRun = @ + 1,
             !.lastFetch = [trigger |-> trigger,
                            mounted |-> s.lifecycle = "mounted"]]

\* the delay of the timer set by the call that captured retryCount = k, in ms
retryDelay(k) == 2000 * (k + 1)

\* the catch block of the call that captured retryCount = k
catchBlock(s, k) ==
    IF k < maxRetries
    THEN [setState(setState(s, "retryCount", s.retryCount + 1), "error", "retrying")
             EXCEPT !.timers = @ (+) SetToBag({k})]
    ELSE setState(s, "error", "terminal")

\* the cleanup of the polling effect leaves its interval running
clearIntervalLeaks(ivs) == ivs

\* the cleanup of the polling effect: clearInterval(interval) on the interval
\* its run created, the latest one
clearInterval(ivs) == SubSeq(ivs, 1, Len(ivs) - 1)

\* the body of the polling effect
pollingEffect(s) ==
    [fetchGlobalOutbreaks(s, s.retryCount, "effect") EXCEPT
        !.intervals = Append(@, s.retryCount)]

\* the render after the state updates of a step: a changed retryCount gives
\* a new fetchGlobalOutbreaks, so the effect is cleaned up and run again
render(old, s) ==
    IF s.lifecycle = "mounted" /\ s.retryCount # old.retryCount
    THEN pollingEffect([s EXCEPT !.intervals = clearInterval(@)])
    ELSE s

Outstanding(s) == BagCardinality(s.inFlight) + BagCardinality(s.timers)

WithinBounds(s) ==
    /\ s.retryCount <= MaxRetryCount
    /\ Outstanding(s) <= MaxOutstanding
    /\ s.fetchesInRun <= MaxFetches

PollBecomes(s) ==
    /\ WithinBounds(s)
    /\ lifecycle' = s.lifecycle
    /\ retryCount' = s.retryCount
    /\ isLoading' = s.isLoading
    /\ error' = s.error
    /\ globalReports' = s.globalReports
    /\ inFlight' = s.inFlight
    /\ timers' = s.timers
    /\ intervals' = s.intervals
    /\ fetchesInRun' = s.fetchesInRun
    /\ lastFetch' = s.lastFetch
    /\ UNCHANGED <<configured, responseText>>

InitPollVars ==
    /\ configured \in BOOLEAN
    /\ responseText \in Texts
    /\ lifecycle = "new"
    /\ retryCount = 0
    /\ isLoading = FALSE
    /\ error = "none"
    /\ globalReports = EmptyObject
    /\ inFlight = EmptyBag
    /\ timers = EmptyBag
    /\ intervals = <<>>
    /\ fetchesInRun = 0
    /\ lastFetch = NoFetch
    /\ delaysInRun = <<>>

\* the component mounts and the polling effect runs for the first time
Mount ==
    /\ lifecycle = "new"
    /\ PollBecomes(pollingEffect([PollState EXCEPT !.lifecycle = "mounted"]))

\* a cleanup that also cancelled the retry timers
UnmountCancelsRetries ==
    /\ lifecycle = "mounted"
    /\ PollBecomes([PollState EXCEPT !.lifecycle = "unmounted",
                                     !.intervals = clearInterval(@),
                                     !.timers = EmptyBag,
                                     !.lastFetch = NoFetch])

\* the component unmounts and the cleanup of the polling effect runs
Unmount ==
    /\ lifecycle = "mounted"
    /\ PollBecomes([PollState EXCEPT !.lifecycle = "unmounted",
                                     !.intervals = clearInterval(@),
                                     !.lastFetch = NoFetch])

\* a live interval calls the fetchGlobalOutbreaks it was created with
PollTick(i) ==
    /\ i \in 1..Len(intervals)
    /\ PollBecomes(fetchGlobalOutbreaks([PollState EXCEPT !.fetchesInRun = 0,
                                                          !.lastFetch = NoFetch],
                                        intervals[i], "tick"))

\* the request of a call comes back and parses: setGlobalReports,
\* setRetryCount(0), and the finally block
FetchSucceeded(k, resp) ==
    /\ BagIn(k, inFlight)
    /\ parses(resp)
    /\ LET s0 == [PollState EXCEPT !.inFlight = @ (-) SetToBag({k}),
                                   !.fetchesInRun = 0,
                                   !.lastFetch = NoFetch]
           s1 == setState(setState(s0, "globalReports", outcome(resp).value),
                          "retryCount", 0)
       IN  PollBecomes(render(s0, setState(s1, "isLoading", FALSE)))

\* the request of a call fails or does not parse: the catch block and the
\* finally block
FetchFailed(k, resp) ==
    /\ BagIn(k, inFlight)
    /\ ~parses(resp)
    /\ LET s0 == [PollState EXCEPT !.inFlight = @ (-) SetToBag({k}),
                                   !.lastFetch = NoFetch]
       IN  PollBecomes(render(s0, setState(catchBlock(s0, k), "isLoading", FALSE)))

\* a retry timer fires and calls the fetchGlobalOutbreaks that set it
RetryTimer(k) ==
    /\ BagIn(k, timers)
    /\ PollBecomes(fetchGlobalOutbreaks([PollState EXCEPT
                                            !.timers = @ (-) SetToBag({k}),
                                            !.lastFetch = NoFetch],
                                        k, "timer"))

(***************************************************************************)
(* CollaborativeHub: donation transactions and donor records               *)
(*                                                                         *)
(* One patient submits transactions for one post, which exists throughout; *)
(* two doctors' instances list the pending transactions and offer Approve  *)
(* and Reject on each.  A write is applied to the store when it is         *)
(* issued; the snapshot that reports it reaches each instance later.  A    *)
(* transaction is identified by its push key, and a donor record by the    *)
(* transaction whose fields it copies.                                     *)
(***************************************************************************)

\* the pushes under transactions/ that the model follows
MaxTx == 2

TxIds == 1..MaxTx

\* the doctors whose instances are open
HubDoctors == {"d1", "d2"}

\* no record at transactions/{id}
NoTx == "none"

\* the status handleTransactionSubmit stores
pendingStatusApproved == "approved"
pendingStatus == "pending"

\* the status handleApproveTransaction stores
approvedStatus == "approved"

InitHubVars ==
    /\ txStore = [i \in TxIds |-> NoTx]
    /\ nextTx = 1
    /\ donorStore = [i \in TxIds |-> 0]
    /\ donations = FALSE
    /\ transactions = [d \in HubDoctors |-> {}]
    /\ hubCalls = [d \in HubDoctors |-> {}]

\* a handler call past its first await: the list is the transactions state
\* of the render whose button was clicked
HubCall(op, i, list) == [op |-> op, id |-> i, list |-> list]

\* a call of doctor d is running; the model lets a doctor click the next
\* button when the call before has returned
Busy(d) == hubCalls[d] # {}

\* handleTransactionSubmit with both inputs filled in: the record is set at a
\* fresh push key, then the donations flag of the post.  Nothing reads the
\* flag, so the two writes are taken in one step.
TransactionSubmit ==
    /\ nextTx <= MaxTx
    /\ txStore' = [txStore EXCEPT ![nextTx] = pendingStatus]
    /\ nextTx' = nextTx + 1
    /\ donations' = TRUE
    /\ UNCHANGED <<donorStore, transactions, hubCalls>>

\* the onValue callback on transactions/ of doctor d's instance
TransactionsSnapshot(d) ==
    LET pending == {i \in TxIds : txStore[i] = pendingStatus} IN
    /\ transactions[d] # pending
    /\ transactions' = [transactions EXCEPT ![d] = pending]
    /\ UNCHANGED <<txStore, nextTx, donorStore, donations, hubCalls>>

\* handleApproveTransaction up to its first await: the record found in the
\* local list is set whole, with status approved, whatever the store holds
ApproveTransaction(d, i) ==
    /\ i \in transactions[d]
    /\ ~Busy(d)
    /\ txStore' = [txStore EXCEPT ![i] = approvedStatus]
    /\ hubCalls' = [hubCalls EXCEPT
                       ![d] = @ \cup {HubCall("approve", i, transactions[d])}]
    /\ UNCHANGED <<nextTx, donorStore, donations, transactions>>

\* handleApproveTransaction after its first await: a donor record is pushed,
\* then the local list becomes the clicked render's list without the record
ApproveDonor(d, c) ==
    /\ c \in hubCalls[d]
    /\ c.op = "approve"
    /\ donorStore' = [donorStore EXCEPT ![c.id] = @ + 1]
    /\ transactions' = [transactions EXCEPT ![d] = c.list \ {c.id}]
    /\ hubCalls' = [hubCalls EXCEPT ![d] = @ \ {c}]
    /\ UNCHANGED <<txStore, nextTx, donations>>

\* handleRejectTransaction up to its await: the record is removed
RejectTransaction(d, i) ==
    /\ i \in transactions[d]
    /\ ~Busy(d)
    /\ txStore' = [txStore EXCEPT ![i] = NoTx]
    /\ hubCalls' = [hubCalls EXCEPT
                       ![d] = @ \cup {HubCall("reject", i, transactions[d])}]
    /\ UNCHANGED <<nextTx, donorStore, donations, transactions>>

\* handleRejectTransaction after its await
RejectDone(d, c) ==
    /\ c \in hubCalls[d]
    /\ c.op = "reject"
    /\ transactions' = [transactions EXCEPT ![d] = c.list \ {c.id}]
    /\ hubCalls' = [hubCalls EXCEPT ![d] = @ \ {c}]
    /\ UNCHANGED <<txStore, nextTx, donorStore, donations>>

\* OutbreakBox is not mounted here; its configuration is taken as present
InitPay == InitAggVars /\ InitPollVars /\ configured /\ responseText = <<>> /\ InitPayVars /\ InitHubVars

\* every handler and callback of PrescriptionBox, without history
NextBox ==
    \/ MessagesSnapshot /\ UNCHANGED <<outVars, histVars>>
    \/ \E p \in Parties : PaymentSnapshot(p) /\ UNCHANGED <<outVars, histVars>>
    \/ \E p \in Parties : SendChat(p) /\ UNCHANGED <<outVars, histVars>>
    \/ \E d \in Doctors : SendPrescription(d) /\ UNCHANGED <<outVars, histVars>>
    \/ \E d \in Doctors : SendPrescriptionPayment(d) /\ UNCHANGED <<outVars, histVars>>
    \/ SendPrescriptionLinks /\ UNCHANGED <<outVars, histVars>>
    \/ \E d \in Doctors, m \in msgStore :
          DeletePrescription(d, m) /\ UNCHANGED <<outVars, histVars>>
    \/ \E p \in Parties : ClearChat(p) /\ UNCHANGED <<outVars, histVars>>
    \/ ConfirmPayment /\ UNCHANGED <<outVars, histVars>>
    \/ \E d \in Doctors : VerifyYes(d) /\ UNCHANGED <<outVars, histVars>>
    \/ \E d \in Doctors : VerifyNo(d) /\ UNCHANGED <<outVars, histVars>>

SpecBox == InitPay /\ [][NextBox]_vars

\* The payment gate with its history.  handleDeletePrescription and
\* handleClearChat issue no write to payment_status and are left to SpecBox.
Quiet == lastWrite' = NoWrite /\ UNCHANGED <<denied, outVars>>

NextPay ==
    \/ MessagesSnapshot /\ Quiet
    \/ \E p \in Parties : PaymentSnapshot(p) /\ Quiet
    \/ \E p \in Parties : SendChat(p) /\ Quiet
    \/ \E d \in Doctors : SendPrescription(d) /\ Quiet
    \/ \E d \in Doctors :
          /\ SendPrescriptionPayment(d)
          /\ lastWrite' = [Written("send", Patient) EXCEPT !.view = "Unclaimed"]
          /\ denied' = FALSE
          /\ UNCHANGED outVars
    \/ SendPrescriptionLinks /\ Quiet
    \/ /\ ConfirmPayment
       /\ lastWrite' = Written("confirm", Patient)
       /\ denied' = (denied /\ Synced)
       /\ UNCHANGED outVars
    \/ \E d \in Doctors :
          /\ VerifyYes(d)
          /\ lastWrite' = Written("yes", d)
          /\ denied' = (denied /\ Synced)
          /\ UNCHANGED outVars
    \/ \E d \in Doctors :
          /\ VerifyNo(d)
          /\ lastWrite' = Written("no", d)
          /\ denied' = Synced
          /\ UNCHANGED outVars

SpecPay == InitPay /\ [][NextPay]_vars

(***************************************************************************)
(* Properties of the payment gate                                          *)
(***************************************************************************)
Status(rec) == StatusName(snapVal(rec))

\* C2: in every reachable state of the stored record, verified implies claimed.
C2_VerifiedImpliesClaimed == payStore.verified => payStore.claimed

\* the record is Verified and the patient has been told
C2_Witness ==
    /\ payStore = PayRecord(TRUE, TRUE)
    /\ ViewOf(Patient) = <<TRUE, TRUE>>

\* C3 as stated: every write that makes the stored record Verified is applied
\* while the stored record is Claimed.
C3_VerifiedOnlyWhileClaimed ==
    (lastWrite.op # "none" /\ Status(payStore) = "Verified"
        /\ lastWrite.prev # "Verified")
      => lastWrite.prev = "Claimed"

\* C3 amended: the stored record becomes Verified only by a verify-yes, and a
\* verify-yes is issued only from the popup of a doctor whose local view is
\* Claimed; the popup is shown only while the doctor's local view is Claimed.
\* The stored record itself need not be Claimed when the write is applied.
C3_VerifiedOnlyBySeenClaim ==
    /\ (lastWrite.op # "none" /\ Status(payStore) = "Verified")
         => (lastWrite.op = "yes" /\ lastWrite.view = "Claimed")
    /\ \A d \in Doctors :
         showVerificationPopup[d] => StatusName(ViewOf(d)) = "Claimed"

\* a verify-yes from a stale popup has just turned an Unclaimed record Verified
C3_Witness ==
    /\ lastWrite = [op |-> "yes", prev |-> "Unclaimed", view |-> "Claimed",
                    synced |-> FALSE]
    /\ payStore = PayRecord(TRUE, TRUE)

\* C4 as stated: a verify-yes or verify-no applied while the stored status is
\* Unclaimed leaves the stored status unchanged.
C4_VerifyOnUnclaimedNoEffect ==
    (lastWrite.op \in {"yes", "no"} /\ lastWrite.prev = "Unclaimed")
      => Status(payStore) = "Unclaimed"

\* C4 amended: a verify-no applied while the stored status is Unclaimed leaves
\* it Unclaimed; a verify-yes applied while it is Unclaimed, which takes a
\* popup raised by an earlier Claimed snapshot, makes it Verified.
C4_NoKeepsUnclaimedYesVerifies ==
    /\ (lastWrite.op = "no" /\ lastWrite.prev = "Unclaimed")
         => Status(payStore) = "Unclaimed"
    /\ (lastWrite.op = "yes" /\ lastWrite.prev = "Unclaimed")
         => /\ Status(payStore) = "Verified"
            /\ lastWrite.view = "Claimed"
            /\ ~lastWrite.synced

\* a verify-no from a stale popup has just been applied to an Unclaimed record
C4_Witness ==
    /\ lastWrite = [op |-> "no", prev |-> "Unclaimed", view |-> "Claimed",
                    synced |-> FALSE]
    /\ payStore = PayRecord(FALSE, FALSE)

\* C5 as stated: confirm-payment moves Unclaimed to Claimed and is a no-op when
\* the stored status is already Claimed or Verified.
C5_ConfirmNoOpUnlessUnclaimed ==
    lastWrite.op = "confirm"
      => IF lastWrite.prev = "Unclaimed"
         THEN Status(payStore) = "Claimed"
         ELSE Status(payStore) = lastWrite.prev

\* C5 amended: confirm-payment is issued only while the patient's local view
\* is Unclaimed, and it always leaves the stored status Claimed: it moves
\* Unclaimed to Claimed, changes nothing on Claimed, and, applied under a
\* lagging view while the stored status is Verified, returns it to Claimed.
C5_ConfirmAlwaysClaims ==
    lastWrite.op = "confirm"
      => /\ Status(payStore) = "Claimed"
         /\ lastWrite.view = "Unclaimed"
         /\ lastWrite.prev # "Unclaimed" => ~lastWrite.synced

\* a confirm-payment has just taken a Verified record back to Claimed
C5_Witness ==
    /\ lastWrite.op = "confirm"
    /\ lastWrite.prev = "Verified"
    /\ payStore = PayRecord(TRUE, FALSE)

\* C6: an action issued when every party has observed the previous write acts
\* as the state machine says: confirm-payment takes Unclaimed to Claimed,
\* verify-no takes Claimed to Unclaimed, verify-yes takes Claimed to Verified,
\* each leaving exactly the (claimed, verified) pair of its target.
C6_SyncedTransitions ==
    lastWrite.synced =>
        /\ lastWrite.op = "confirm"
             => (lastWrite.prev = "Unclaimed" /\ payStore = PayRecord(TRUE, FALSE))
        /\ lastWrite.op = "no"
             => (lastWrite.prev = "Claimed" /\ payStore = PayRecord(FALSE, FALSE))
        /\ lastWrite.op = "yes"
             => (lastWrite.prev = "Claimed" /\ payStore = PayRecord(TRUE, TRUE))

\* claim, deny, claim again, verify, each observed by all before the next
C6_Witness ==
    /\ lastWrite.op = "yes"
    /\ lastWrite.synced
    /\ denied
    /\ payStore = PayRecord(TRUE, TRUE)

\* C16 as stated: the first prescription send creates the record with
\* (claimed=false, verified=false), and a send applied while the stored
\* record is Claimed or Verified leaves the stored status unchanged.
C16_LaterSendKeepsStatus ==
    lastWrite.op = "send" =>
        /\ payStore.exists
        /\ lastWrite.prev = "Unclaimed" => Status(payStore) = "Unclaimed"
        /\ lastWrite.prev \in {"Claimed", "Verified"}
              => Status(payStore) = lastWrite.prev

\* C16 amended: every prescription send, the first one and any later one,
\* sets the record to (claimed=false, verified=false), whatever it was.
C16_EverySendResets ==
    lastWrite.op = "send" => payStore = PayRecord(FALSE, FALSE)

\* a prescription sent to a patient whose payment had been verified
C16_Witness ==
    /\ lastWrite.op = "send"
    /\ lastWrite.prev = "Verified"
    /\ payStore = PayRecord(FALSE, FALSE)

\* C22 as stated: handleClearChat clears the payment status record, and
\* handleSendChat and handleDeletePrescription leave it in place.
C22_ClearDeletesStatus ==
    [][/\ (\E p \in Parties : ClearChat(p)) => payStore' = NoRecord
       /\ (\E p \in Parties : SendChat(p)) => payStore' = payStore
       /\ (\E d \in Doctors, m \in msgStore : DeletePrescription(d, m))
              => payStore' = payStore]_vars

\* C22, amended: no operation deletes the payment status record.
\* handleClearChat removes the messages only and leaves the record as it is,
\* as do handleSendChat and handleDeletePrescription; a record that exists
\* keeps existing.
C22_NoOperationDeletesStatus ==
    [][/\ (\E p \in Parties : ClearChat(p)) => payStore' = payStore
       /\ (\E p \in Parties : SendChat(p)) => payStore' = payStore
       /\ (\E d \in Doctors, m \in msgStore : DeletePrescription(d, m))
              => payStore' = payStore
       /\ payStore.exists => payStore'.exists]_vars

\* the thread has been emptied and the record of a claimed payment is still there
C22_Witness ==
    /\ msgStore = {}
    /\ messages = <<>>
    /\ nextId > 1
    /\ payStore.exists
    /\ payStore.claimed

\* C23: while the thread, in the store and as the patient sees it, holds no
\* message or messages sent by the patient only, the patient is shown the
\* chat input and not the payment panel, and no message is obscured.
C23_GateNeedsDoctorMessage ==
    (/\ \A m \in msgStore : m.sender = "patient"
     /\ \A i \in 1..Len(messages) : messages[i].sender = "patient")
      => /\ ~paymentPanelShown(hasDoctorSentFirst, paymentVerified[Patient])
         /\ \A i \in 1..Len(messages) :
                ~obscured("patient", hasDoctorSentFirst,
                          paymentVerified[Patient], messages[i])

\* C24: in the patient's view a prescription or buy-link message is rendered
\* un-obscured only if the patient's local paymentVerified is true, and a chat
\* message is never obscured; in a doctor's view, whatever the doctor's local
\* flags are, no message of the thread is obscured.
C24_UnobscuredOnlyIfVerified ==
    /\ \A i \in 1..Len(messages) :
           LET shown == ~obscured("patient", hasDoctorSentFirst,
                                  paymentVerified[Patient], messages[i])
           IN  /\ (messages[i].type \in {"prescription", "buyLink"} /\ shown)
                      => paymentVerified[Patient]
               /\ messages[i].type = "chat" => shown
    /\ \A d \in Doctors, hasDoc \in BOOLEAN, m \in msgStore :
           ~obscured("doctor", hasDoc, paymentVerified[d], m)

\* the payment is verified and the patient reads the prescription, while a
\* doctor's view still has it unverified
C24_Witness ==
    /\ paymentVerified[Patient]
    /\ \E i \in 1..Len(messages) :
           /\ messages[i].type = "prescription"
           /\ ~obscured("patient", hasDoctorSentFirst,
                        paymentVerified[Patient], messages[i])
    /\ \E d \in Doctors : ~paymentVerified[d] /\ msgStore # {}

\* C28: hasDoctorSentFirst never goes back to false, it is true after every
\* messages snapshot that holds a message, and so, also when the thread has
\* been cleared to empty, a patient whose local paymentVerified is false is
\* shown the payment panel instead of the chat input.
C28_FlagIsMonotone ==
    /\ [][/\ hasDoctorSentFirst => hasDoctorSentFirst'
          /\ (MessagesSnapshot /\ msgStore # {}) => hasDoctorSentFirst']_vars
    /\ []((hasDoctorSentFirst /\ ~paymentVerified[Patient])
             => paymentPanelShown(hasDoctorSentFirst, paymentVerified[Patient]))

\* the thread was cleared, the patient has seen it empty, and the panel is
\* still shown
C28_Witness ==
    /\ nextId > 1
    /\ msgStore = {}
    /\ messages = <<>>
    /\ hasDoctorSentFirst
    /\ ~paymentVerified[Patient]
    /\ paymentPanelShown(hasDoctorSentFirst, paymentVerified[Patient])

\* The payment gate of SpecPay with fair delivery: a value event that is due
\* to a subscriber is delivered.
SpecSync ==
    /\ InitPay
    /\ [][NextPay]_vars
    /\ \A p \in Parties : WF_vars(PaymentSnapshot(p) /\ Quiet)

\* C30: if from some point on no step changes the stored record, then from
\* some point on the local (paymentClaimed, paymentVerified) of the patient
\* and of every doctor equals the stored record, a missing record read as
\* (false, false); and at all times a doctor's popup is shown exactly when
\* that doctor's local view is claimed and not verified.
C30_ViewsConverge ==
    /\ (<>[][payStore' = payStore]_vars) => <>[]Synced
    /\ [](\A d \in Doctors :
             showVerificationPopup[d]
                 <=> (paymentClaimed[d] /\ ~paymentVerified[d]))

\* a claim has reached every subscriber and every doctor is asked to verify
C30_Witness ==
    /\ payStore = PayRecord(TRUE, FALSE)
    /\ Synced
    /\ \A d \in Doctors : showVerificationPopup[d]

\* C7: while the patient's view is Claimed and the thread has a message sent
\* by a doctor, every prescription and buy-link message shown to the patient
\* is rendered obscured.
C7_ObscuredWhileClaimed ==
    (/\ paymentClaimed[Patient] /\ ~paymentVerified[Patient]
     /\ \/ \E m \in msgStore : m.sender = "doctor"
        \/ \E i \in 1..Len(messages) : messages[i].sender = "doctor")
      => \A i \in 1..Len(messages) :
            messages[i].type \in {"prescription", "buyLink"}
              => obscured("patient", hasDoctorSentFirst, paymentVerified[Patient],
                          messages[i])

\* the patient waits for verification with a prescription and its buy links shown
C7_Witness ==
    /\ paymentClaimed[Patient] /\ ~paymentVerified[Patient]
    /\ Len(messages) = 2
    /\ messages[1].type = "prescription" /\ messages[1].sender = "doctor"
    /\ messages[2].type = "buyLink"
    /\ obscured("patient", hasDoctorSentFirst, paymentVerified[Patient], messages[2])

InitAgg == InitAggVars /\ InitPollVars /\ configured /\ responseText = <<>> /\ InitPayVars /\ InitHubVars

NextAgg ==
    \/ ReportAdded /\ UNCHANGED <<pollVars, payVars, hubVars, retryVars>>
    \/ ReportRemoved /\ UNCHANGED <<pollVars, payVars, hubVars, retryVars>>

SpecAgg == InitAgg /\ [][NextAgg]_vars

(***************************************************************************)
(* Properties of the aggregator                                            *)
(***************************************************************************)
\* trim, then lowercase: the normalisation the data model describes
Normalize(s) == toLowerCase(trim(s))
\* location ?? "Unknown": only a null or absent field takes the default
OrUnknown(x) == IF x = Null THEN Unknown ELSE x

NoRepeatedKeys(obj) ==
    \A i, j \in 1..Len(obj) : obj[i][1] = obj[j][1] => i = j

WellFormed(agg) ==
    /\ NoRepeatedKeys(agg)
    /\ \A i \in 1..Len(agg) : NoRepeatedKeys(agg[i][2])

CountIn(agg, city, disease) == Get(Get(agg, city, <<>>), disease, 0)

\* the (city, disease) pairs a check has to look at: those present in the
\* table, and those of the reports under the normalisation norm
PairsIn(agg) ==
    UNION {{<<agg[i][1], agg[i][2][j][1]>> : j \in 1..Len(agg[i][2])} :
              i \in 1..Len(agg)}
PairsOf(rs, norm(_)) ==
    {<<norm(rs[i].location), norm(rs[i].type)>> : i \in 1..Len(rs)}
NumberOf(rs, norm(_), pair) ==
    Cardinality({i \in 1..Len(rs) :
        <<norm(rs[i].location), norm(rs[i].type)>> = pair})

\* every city of the table is listed once in localEntries, with the sum of its counts
TotalsAreSums ==
    /\ Len(localEntries) = Len(aggregatedLocal)
    /\ \A i \in 1..Len(aggregatedLocal) :
           \E j \in 1..Len(localEntries) :
               /\ localEntries[j].city = aggregatedLocal[i][1]
               /\ localEntries[j].total = sumCounts(aggregatedLocal[i][2])
    /\ \A j, k \in 1..Len(localEntries) :
           localEntries[j].city = localEntries[k].city => j = k

\* the normalisation of the data model: trim and lowercase, null reading "Unknown"
NormalizeField(x) == Normalize(OrUnknown(x))
\* the key of the code, stated independently of keyOf
KeyField(x) == Normalize(IF x \in {Null, <<>>} THEN Unknown ELSE x)

IsString(x) == x # Null
SameLocation == \A i, j \in 1..Len(reports) :
    /\ IsString(reports[i].location)
    /\ Normalize(reports[i].location) = Normalize(reports[j].location)
SameType == \A i, j \in 1..Len(reports) :
    /\ IsString(reports[i].type)
    /\ Normalize(reports[i].type) = Normalize(reports[j].type)
OneCity ==
    /\ Len(aggregatedLocal) = 1
    /\ localEntries[1].total = Len(reports)
OneDisease ==
    \A i, j \in 1..Len(aggregatedLocal) :
        /\ Len(aggregatedLocal[i][2]) = 1
        /\ aggregatedLocal[i][2][1][1] = aggregatedLocal[j][2][1][1]

C12_EmptyInEmptyOut ==
    reports = <<>> => aggregatedLocal = <<>> /\ localEntries = <<>>

\* the memos of the empty reports prop
C12_Witness ==
    /\ reports = <<>>
    /\ aggregatedLocal = groupLocal(reports)
    /\ localEntries = entriesOf(aggregatedLocal)
    /\ Len(localEntries) = 0

(***************************************************************************)
(* The fetch, retry and polling machinery of OutbreakBox                   *)
(***************************************************************************)
InitPoll == InitAggVars /\ InitPollVars /\ responseText = <<>> /\ InitPayVars /\ InitHubVars

NextPoll ==
    \/ Mount /\ UNCHANGED <<aggVars, payVars, hubVars, retryVars>>
    \/ Unmount /\ UNCHANGED <<aggVars, payVars, hubVars, retryVars>>
    \/ \E i \in 1..Len(intervals) : PollTick(i) /\ UNCHANGED <<aggVars, payVars, hubVars, retryVars>>
    \/ \E k \in 0..MaxRetryCount, resp \in Responses :
          FetchSucceeded(k, resp) /\ UNCHANGED <<aggVars, payVars, hubVars, retryVars>>
    \/ \E k \in 0..MaxRetryCount, resp \in Responses :
          FetchFailed(k, resp) /\ UNCHANGED <<aggVars, payVars, hubVars, retryVars>>
    \/ \E k \in 0..MaxRetryCount : RetryTimer(k) /\ UNCHANGED <<aggVars, payVars, hubVars, retryVars>>

SpecPoll == InitPoll /\ [][NextPoll]_vars

\* C8: in a run of failing fetches at most maxRetries retry fetches follow the
\* first attempt (so at most 1 + maxRetries requests are issued between one
\* poll tick, or the mount, and the next poll tick), and once the terminal
\* error is shown no request is in flight or scheduled.
C8_AtMostMaxRetriesRetries ==
    /\ fetchesInRun <= 1 + maxRetries
    /\ error = "terminal" => Outstanding(PollState) = 0

\* C15: when the API key or URL is missing, a call of fetchGlobalOutbreaks
\* shows the configuration error, issues no request, leaves retryCount and
\* globalReports as they were and sets no retry timer.
C15_MissingConfigNoFetch ==
    ~configured =>
        /\ lifecycle # "new" => error = "config"
        /\ inFlight = EmptyBag
        /\ fetchesInRun = 0
        /\ lastFetch = NoFetch
        /\ timers = EmptyBag
        /\ retryCount = 0
        /\ globalReports = EmptyObject
        /\ ~isLoading

\* the unconfigured component after its mount, whose effect has called
\* fetchGlobalOutbreaks and set the interval that calls it again
C15_Witness ==
    /\ ~configured
    /\ lifecycle = "mounted"
    /\ intervals = <<0>>
    /\ error = "config"

\* C25: retryCount stays within 0..maxRetries, and a request that comes back
\* and parses while the component is mounted resets it to 0.
C25_RetryCountWithinCeiling ==
    /\ [](retryCount \in 0..maxRetries)
    /\ [][\A k \in 0..MaxRetryCount, resp \in Responses :
             (lifecycle = "mounted" /\ FetchSucceeded(k, resp))
                 => retryCount' = 0]_vars

\* C26: a request that fails below the ceiling while it is the only one
\* outstanding leaves exactly one follow-up outstanding, its retry timer, and
\* at most one request or pending retry timer exists at any time.
C26_OneFetchOrTimer ==
    /\ [][\A k \in 0..MaxRetryCount, resp \in Responses :
             (/\ lifecycle = "mounted"
              /\ k < maxRetries
              /\ Outstanding(PollState) = 1
              /\ FetchFailed(k, resp))
                 => BagCardinality(inFlight') + BagCardinality(timers') = 1]_vars
    /\ [](Outstanding(PollState) <= 1)

\* C27: isLoading is true exactly while at least one request is in flight, as
\* long as the component is mounted.
C27_LoadingIffInFlight ==
    lifecycle = "mounted" => (isLoading <=> inFlight # EmptyBag)

\* C9: at most one polling interval is live, none is live once the component
\* is unmounted, and no request is issued by an interval after the unmount.
C9_IntervalClearedOnUnmount ==
    /\ Len(intervals) <= 1
    /\ lifecycle # "mounted" => intervals = <<>>
    /\ lastFetch.trigger = "tick" => lastFetch.mounted

\* the effect has been re-run after a failed fetch, its interval replaced,
\* and the component has since been unmounted with a retry still pending
C9_Witness ==
    /\ lifecycle = "unmounted"
    /\ retryCount >= 1
    /\ timers # EmptyBag
    /\ intervals = <<>>

\* C20: the unmount leaves the pending retry timers in place, and a retry
\* timer that fires after the unmount issues a request, as it does before.
C20_RetryTimersSurviveUnmount ==
    [][/\ (lifecycle = "mounted" /\ lifecycle' = "unmounted")
              => timers' = timers
       /\ \A k \in 0..MaxRetryCount :
              (lifecycle = "unmounted" /\ configured /\ RetryTimer(k))
                  => /\ lastFetch' = [trigger |-> "timer", mounted |-> FALSE]
                     /\ inFlight' = inFlight (+) SetToBag({k})]_vars

\* a retry timer that was pending at the unmount has fired and its request
\* is in flight
C20_Witness ==
    /\ lifecycle = "unmounted"
    /\ lastFetch = [trigger |-> "timer", mounted |-> FALSE]
    /\ inFlight # EmptyBag

(***************************************************************************)
(* The aggregator on longer lists.  The reports are drawn from a few       *)
(* values whose keys are two cities ("a" and "") and two diseases ("a" and  *)
(* "unknown"), so that cities and diseases with different counts meet in   *)
(* one table.                                                              *)
(***************************************************************************)
MaxListed == 4

ListedInputs == [location : {<<"A">>, <<" ">>}, type : {<<"a">>, Null}]

ListedAdded ==
    /\ Len(reports) < MaxListed
    /\ \E r \in ListedInputs : Render(<<r>> \o reports)

InitList == InitAggVars /\ InitPollVars /\ configured /\ responseText = <<>> /\ InitPayVars /\ InitHubVars

NextList ==
    \/ ListedAdded /\ UNCHANGED <<pollVars, payVars, hubVars, retryVars>>
    \/ ReportRemoved /\ UNCHANGED <<pollVars, payVars, hubVars, retryVars>>

SpecList == InitList /\ [][NextList]_vars

NonIncreasing(ns) == \A i, j \in 1..Len(ns) : i < j => ns[i] >= ns[j]

KeysOf(obj) == {obj[i][1] : i \in 1..Len(obj)}
DiseaseMap(dis) == [k \in KeysOf(dis) |-> Get(dis, k, 0)]
TableMap(agg) == [c \in KeysOf(agg) |-> DiseaseMap(Get(agg, c, <<>>))]

Permuted(rs, f) == [i \in 1..Len(rs) |-> rs[f[i]]]
Reversed(rs) == [i \in 1..Len(rs) |-> rs[Len(rs) + 1 - i]]

InitParse == InitAggVars /\ InitPollVars /\ configured /\ InitPayVars /\ InitHubVars

NextParse ==
    \/ Mount /\ UNCHANGED <<aggVars, payVars, hubVars, retryVars>>
    \/ \E k \in 0..MaxRetryCount :
          FetchSucceeded(k, Ok(responseText)) /\ UNCHANGED <<aggVars, payVars, hubVars, retryVars>>
    \/ \E k \in 0..MaxRetryCount :
          FetchFailed(k, Ok(responseText)) /\ UNCHANGED <<aggVars, payVars, hubVars, retryVars>>
    \/ \E k \in 0..MaxRetryCount : RetryTimer(k) /\ UNCHANGED <<aggVars, payVars, hubVars, retryVars>>

SpecParse == InitParse /\ [][NextParse]_vars

\* the state right after the mount: the first request is out, unanswered
AwaitingFirstResponse ==
    inFlight = SetToBag({0}) /\ timers = EmptyBag /\ retryCount = 0

\* the text parses as a JSON object
ParsesAsObject(t) == JSONparse(t)[1] = "object"

\* the block the regex extracts from the text parses
BlockParses(t) ==
    matchBraces(t) # NoMatch /\ JSONparse(matchBraces(t)) # SyntaxError

\* C17: once the response text is handled, globalReports is replaced by the
\* parsed value and retryCount is 0 with no error shown if and only if the
\* whole text parses as a JSON object or, failing that, the {...} block
\* extracted by the regex parses; otherwise globalReports is not replaced and
\* the failure is taken by the retry handling (a retry is scheduled or under
\* way, or the terminal error is shown).
C17_ReplacedIffObjectOrBlockParses ==
    lifecycle = "mounted" /\ ~AwaitingFirstResponse =>
        IF responseText # <<>>
           /\ (ParsesAsObject(responseText) \/ BlockParses(responseText))
        THEN /\ globalReports = (IF ParsesAsObject(responseText)
                                 THEN JSONparse(responseText)
                                 ELSE JSONparse(matchBraces(responseText)))
             /\ retryCount = 0
             /\ error = "none"
        ELSE /\ globalReports = EmptyObject
             /\ Outstanding(PollState) > 0 \/ error = "terminal"

(***************************************************************************)
(* CollaborativeHub on its own                                             *)
(***************************************************************************)

InitHub == InitAggVars /\ InitPollVars /\ configured /\ responseText = <<>> /\ InitPayVars /\ InitHubVars

NextHub ==
    \/ TransactionSubmit /\ UNCHANGED <<aggVars, pollVars, payVars, retryVars>>
    \/ \E d \in HubDoctors :
          TransactionsSnapshot(d) /\ UNCHANGED <<aggVars, pollVars, payVars, retryVars>>
    \/ \E d \in HubDoctors, i \in TxIds :
          ApproveTransaction(d, i) /\ UNCHANGED <<aggVars, pollVars, payVars, retryVars>>
    \/ \E d \in HubDoctors : \E c \in hubCalls[d] :
          ApproveDonor(d, c) /\ UNCHANGED <<aggVars, pollVars, payVars, retryVars>>
    \/ \E d \in HubDoctors, i \in TxIds :
          RejectTransaction(d, i) /\ UNCHANGED <<aggVars, pollVars, payVars, retryVars>>
    \/ \E d \in HubDoctors : \E c \in hubCalls[d] :
          RejectDone(d, c) /\ UNCHANGED <<aggVars, pollVars, payVars, retryVars>>

SpecHub == InitHub /\ [][NextHub]_vars

\* the steps that change the status of transaction i
C18_StatusSteps(i) ==
    /\ (TransactionSubmit /\ nextTx = i) => txStore'[i] = "pending"
    /\ (txStore[i] = "pending" /\ txStore'[i] # "pending")
          => \E d \in HubDoctors : \/ ApproveTransaction(d, i)
                                   \/ RejectTransaction(d, i)
    /\ (txStore[i] # "approved" /\ txStore'[i] = "approved")
          => \E d \in HubDoctors : ApproveTransaction(d, i)

\* an approved transaction has a donor record, or the approving call is
\* between its two writes and about to push one
C18_DonorRecorded(i) ==
    txStore[i] = "approved"
        => \/ donorStore[i] > 0
           \/ \E d \in HubDoctors : \E c \in hubCalls[d] :
                 c.op = "approve" /\ c.id = i

InitRetry == InitAggVars /\ InitPollVars /\ configured /\ responseText = <<>> /\ InitPayVars /\ InitHubVars

NoRetrySet == UNCHANGED <<delaysInRun, aggVars, payVars, hubVars>>
RunStarts == delaysInRun' = <<>> /\ UNCHANGED <<aggVars, payVars, hubVars>>

NextRetry ==
    \/ Mount /\ RunStarts
    \/ Unmount /\ NoRetrySet
    \/ \E i \in 1..Len(intervals) : PollTick(i) /\ NoRetrySet
    \/ \E k \in 0..MaxRetryCount, resp \in Responses :
          FetchSucceeded(k, resp) /\ RunStarts
    \/ \E k \in 0..MaxRetryCount, resp \in Responses :
          /\ FetchFailed(k, resp)
          /\ delaysInRun' = IF k < maxRetries /\ Len(delaysInRun) < maxRetries
                            THEN Append(delaysInRun, retryDelay(k))
                            ELSE delaysInRun
          /\ UNCHANGED <<aggVars, payVars, hubVars>>
    \/ \E k \in 0..MaxRetryCount : RetryTimer(k) /\ NoRetrySet

SpecRetry == InitRetry /\ [][NextRetry]_vars

\* C21: in a run of consecutive failures the k-th retry timer (k = 1, 2, 3)
\* is set with a delay of 2000 ms times k, so the delays increase strictly.
C21_KthRetryDelay ==
    \A j \in 1..Len(delaysInRun) :
        j <= maxRetries => delaysInRun[j] = 2000 * j

\* C29: a transaction that a doctor has removed stays removed (no later step
\* re-creates it, as approved or otherwise), and no transaction has more than
\* one donor record.
C29_RejectedStaysRejected ==
    /\ [][\A i \in TxIds :
             (i < nextTx /\ txStore[i] = NoTx) => txStore'[i] = NoTx]_vars
    /\ [](\A i \in TxIds : donorStore[i] <= 1)

====
